---- MODULE Spec2Model ----
(***************************************************************************)
(* A model of src/parser1.py: HHruParser, a collector that pages through   *)
(* the hh.ru listing endpoint, fetches the detail of every listed vacancy, *)
(* and accumulates Vacancy records in found_vacancies.                     *)
(*                                                                         *)
(* JSON values are modelled by their shape.  An optional value (a key that *)
(* may be missing, a value that may be null) is a sequence of length 0 or  *)
(* 1: None is <<>> and Some(v) is <<v>>.  A JSON object whose keys matter  *)
(* is a function from its keys, so the empty object is the function with   *)
(* the empty domain and Some of it is not None.                            *)
(***************************************************************************)
EXTENDS Integers, Sequences, FiniteSets, TLC

VARIABLES
    server,          \* the remote API: page index -> the listing response it gives
    max_pages,       \* self.max_pages
    found_vacancies, \* self.found_vacancies
    pc,              \* "idle", "request" (loop head), "items" (in _process_vacancies),
                     \* "returned", "raised" (an error left fetch_vacancies), "save_raised"
    page,            \* the loop variable of fetch_vacancies
    items,           \* vacancies_data, the list _process_vacancies iterates
    idx,             \* position of _process_vacancies in items (1-based)
    file,            \* content of the JSON file save_to_json wrote (None before)
    runs,            \* number of fetch_vacancies invocations so far
    log,             \* history: requests and pauses of the current invocation
    atRequest,       \* history: found_vacancies when the last listing request was issued
    history          \* history: found_vacancies at each invocation of fetch_vacancies

vars == <<server, max_pages, found_vacancies, pc, page, items, idx, file, runs,
          log, atRequest, history>>

----------------------------------------------------------------------------
(* Bounds of the model. *)

MaxPagesBound == 2

MaxItems == 2

MaxRuns == 2

----------------------------------------------------------------------------
(* Optional values. *)

None == <<>>

Some(v) == <<v>>

----------------------------------------------------------------------------
(* The data the remote API can send. *)

SalaryKeys == {"from", "to", "currency", "gross"}

\* dict.get(key): the value under key, None when the key is missing.
DictGet(d, k) == IF k \in DOMAIN d THEN d[k] ELSE None

FullSalary ==
    [k \in SalaryKeys |->
        CASE k = "from" -> Some("100000")
          [] k = "to" -> Some("150000")
          [] k = "currency" -> Some("RUR")
          [] k = "gross" -> Some("false")]

\* The value under "salary" of a listing item.  kind "missing": no such key;
\* "null": JSON null; "dict": the object d; "str": a non-empty string.
Salaries ==
    {[kind |-> "missing", d |-> <<>>],
     [kind |-> "null", d |-> <<>>],
     [kind |-> "str", d |-> <<>>],
     [kind |-> "dict", d |-> <<>>],
     [kind |-> "dict", d |-> [k \in {"from"} |-> Some("100000")]],
     [kind |-> "dict", d |-> [k \in {"to", "currency"} |->
                                 IF k = "to" THEN None ELSE Some("RUR")]],
     [kind |-> "dict", d |-> FullSalary]}

\* The response of the detail endpoint.  net: how the transport ended;
\* status: the HTTP status; body: "notjson", "nondict" (a JSON array or
\* scalar) or "dict"; key_skills: "missing", "null", "badelem" (an element
\* without "name") or "list" (of objects with the names given);
\* description: None when the key is missing.
Detail(net, status, body, skillsKind, names, description) ==
    [net |-> net, status |-> status, body |-> body,
     key_skills |-> [kind |-> skillsKind, names |-> names],
     description |-> description]

DetailOk == Detail("ok", 200, "dict", "list", <<"python", "sql">>, Some("text"))

DetailTimeout == Detail("timeout", 0, "notjson", "missing", <<>>, None)

Details ==
    {DetailOk,
     DetailTimeout,
     Detail("neterr", 0, "notjson", "missing", <<>>, None),
     Detail("ok", 200, "dict", "missing", <<>>, Some("text")),
     Detail("ok", 200, "dict", "list", <<>>, None),
     Detail("ok", 200, "dict", "null", <<>>, Some("text")),
     Detail("ok", 200, "dict", "badelem", <<>>, Some("text")),
     Detail("ok", 200, "nondict", "missing", <<>>, None),
     Detail("ok", 200, "notjson", "missing", <<>>, None),
     Detail("ok", 404, "dict", "missing", <<>>, None),
     Detail("ok", 404, "dict", "missing", <<>>, Some("Not Found")),
     Detail("ok", 500, "notjson", "missing", <<>>, None)}

\* The value under "employer": "missing", "null", or "dict" with an optional name.
Employers ==
    {[kind |-> "missing", name |-> None],
     [kind |-> "null", name |-> None],
     [kind |-> "dict", name |-> None],
     [kind |-> "dict", name |-> Some("acme")]}

\* An element of the listing's "items".  dict: whether it is a JSON object;
\* id, name, alternate_url: None when the key is missing; detail: what the
\* detail endpoint answers for this item's id.
Item(isDict, id, name, employer, salary, url, detail) ==
    [dict |-> isDict, id |-> id, name |-> name, employer |-> employer,
     salary |-> salary, alternate_url |-> url, detail |-> detail]

NotADict ==
    Item(FALSE, None, None, [kind |-> "missing", name |-> None],
         [kind |-> "missing", d |-> <<>>], None, DetailTimeout)

GoodItem(n, detail) ==
    Item(TRUE, Some(n), Some(n), [kind |-> "dict", name |-> Some("acme")],
         [kind |-> "dict", d |-> FullSalary], Some(n), detail)

\* The items of the pipeline specification, by kind: a well-formed item, an
\* item whose detail request times out, an element that is no object.
ItemKinds == {"good", "timeout", "nondict"}

ItemOfKind(kind, n) ==
    CASE kind = "good" -> GoodItem(n, DetailOk)
      [] kind = "timeout" -> GoodItem(n, DetailTimeout)
      [] kind = "nondict" -> NotADict

\* Every shape of item, for the single-item specification.
AllItems ==
    {NotADict} \cup
    {Item(TRUE, id, name, e, s, url, d) :
        id \in {None, Some(1)}, name \in {None, Some(1)}, e \in Employers,
        s \in Salaries, url \in {None, Some(1)}, d \in Details}

\* The response of the listing endpoint.  items: "missing", "null", "number"
\* (a non-zero number) or "list".
Listing(net, status, body, itemsKind, list) ==
    [net |-> net, status |-> status, body |-> body,
     items |-> [kind |-> itemsKind, list |-> list]]

ListingOf(list) == Listing("ok", 200, "dict", "list", list)

\* Listing responses that carry no usable list of items.
BadListings ==
    {Listing("neterr", 0, "notjson", "missing", <<>>),
     Listing("timeout", 0, "notjson", "missing", <<>>),
     Listing("ok", 404, "dict", "missing", <<>>),
     Listing("ok", 500, "notjson", "missing", <<>>),
     Listing("ok", 200, "notjson", "missing", <<>>),
     Listing("ok", 200, "nondict", "missing", <<>>),
     Listing("ok", 200, "dict", "missing", <<>>),
     Listing("ok", 200, "dict", "null", <<>>),
     Listing("ok", 200, "dict", "number", <<>>),
     Listing("ok", 200, "dict", "list", <<>>)}

\* The id of the item at position i of page p: ids are unique per vacancy.
IdAt(p, i) == p * MaxItems + i

\* The shapes of listing response of the pipeline specification: a network
\* error, a body that is no JSON object, a 5xx and a 3xx status whose JSON
\* body carries one item, and every list of at most MaxItems items, by kind.
ListingShapes ==
    {[resp |-> r, kinds |-> <<>>] : r \in {"neterr", "nondict"}}
    \cup {[resp |-> r, kinds |-> <<"good">>] : r \in {"http500", "http300"}}
    \cup UNION {{[resp |-> "http200", kinds |-> ks] : ks \in [1..n -> ItemKinds]} :
                   n \in 0..MaxItems}

\* The listing response of shape sh for page p.
ListingOfShape(p, sh) ==
    LET list == [i \in 1..Len(sh.kinds) |-> ItemOfKind(sh.kinds[i], IdAt(p, i))]
    IN  CASE sh.resp = "neterr" -> Listing("neterr", 0, "notjson", "missing", <<>>)
          [] sh.resp = "http500" -> Listing("ok", 500, "dict", "list", list)
          [] sh.resp = "nondict" -> Listing("ok", 200, "nondict", "missing", <<>>)
          [] sh.resp = "http300" -> Listing("ok", 300, "dict", "list", list)
          [] sh.resp = "http200" -> ListingOf(list)

----------------------------------------------------------------------------
(* The code's pure steps. *)

\* Faulty variant: the status is never checked.
RaiseForStatus_Never(status) == FALSE

\* Response.raise_for_status(): an HTTPError for a 4xx or 5xx status only.
RaiseForStatus(status) == status >= 400 /\ status < 600

\* Faulty variant: an empty page is processed like any other.
NoItems_Never(its) == FALSE

\* `not data.get("items")`: the key is missing, or its value is None or empty.
NoItems(its) ==
    \/ its.kind \in {"missing", "null"}
    \/ its.kind = "list" /\ Len(its.list) = 0

\* What one pass of the try block of fetch_vacancies does with the listing
\* response: "error" (a RequestException, caught: break), "empty" (break),
\* "raise" (an exception the except clause does not catch) or "items".
\* jsonErrorCaught: whether the installed requests raises its own
\* JSONDecodeError, a RequestException (2.27 and later), or a ValueError.
ListingOutcome(resp, jsonErrorCaught) ==
    IF resp.net # "ok" THEN "error"
    ELSE IF RaiseForStatus(resp.status) THEN "error"
    ELSE IF resp.body = "notjson" THEN (IF jsonErrorCaught THEN "error" ELSE "raise")
    ELSE IF resp.body = "nondict" THEN "raise"
    ELSE IF NoItems(resp.items) THEN "empty"
    ELSE IF resp.items.kind # "list" THEN "raise"
    ELSE "items"

\* Faulty variant: the source object is passed on as it came.
ParseSalary_Raw(salary_data) ==
    IF salary_data = None \/ DOMAIN salary_data[1] = {} THEN None
    ELSE Some(salary_data[1])

\* _parse_salary: None for a falsy argument, else the four keys, each
\* salary_data.get(key).  The argument is Some(dict) or None.
ParseSalary(salary_data) ==
    IF salary_data = None \/ DOMAIN salary_data[1] = {} THEN None
    ELSE Some([from |-> DictGet(salary_data[1], "from"),
               to |-> DictGet(salary_data[1], "to"),
               currency |-> DictGet(salary_data[1], "currency"),
               gross |-> DictGet(salary_data[1], "gross")])

\* vacancy_data.get("salary") as _parse_salary receives it.
SalaryArg(v) == IF v.salary.kind = "dict" THEN Some(v.salary.d) ELSE None

Vacancy(title, company, salary, url, description, skills) ==
    [title |-> title, company |-> company, salary |-> salary, url |-> url,
     description |-> description, skills |-> skills]

\* The exception the try block of _process_vacancies raises for item v, in
\* the order the code evaluates; "none" when it reaches the append.
ItemException(v) ==
    IF ~v.dict THEN "TypeError"
    ELSE IF v.id = None THEN "KeyError"
    ELSE IF v.detail.net # "ok" THEN "RequestException"
    ELSE IF v.detail.body = "notjson" THEN "JSONDecodeError"
    ELSE IF v.detail.body = "nondict" THEN "AttributeError"
    ELSE IF v.detail.key_skills.kind = "null" THEN "TypeError"
    ELSE IF v.detail.key_skills.kind = "badelem" THEN "KeyError"
    ELSE IF v.salary.kind = "str" THEN "AttributeError"
    ELSE IF v.name = None THEN "KeyError"
    ELSE IF v.employer.kind = "missing" THEN "KeyError"
    ELSE IF v.employer.kind = "null" THEN "TypeError"
    ELSE IF v.employer.name = None THEN "KeyError"
    ELSE IF v.alternate_url = None THEN "KeyError"
    ELSE "none"

\* Whether the detail request for item v is issued: the URL needs v['id'].
DetailRequested(v) == v.dict /\ v.id # None

\* The Vacancy built from item v and its detail response.
VacancyOf(v) ==
    Vacancy(v.name[1], v.employer.name[1], ParseSalary(SalaryArg(v)),
            v.alternate_url[1],
            IF v.detail.description = None THEN "" ELSE v.detail.description[1],
            v.detail.key_skills.names)

\* The except clause of _process_vacancies logs vacancy_data.get('id'),
\* which itself raises AttributeError when the item is no dict.
HandlerRaises(v) == ~v.dict

\* One iteration of the loop of _process_vacancies: "append", "skip" or
\* "raise" (the exception leaves _process_vacancies and fetch_vacancies).
ItemOutcome(v) ==
    IF ItemException(v) = "none" THEN "append"
    ELSE IF HandlerRaises(v) THEN "raise"
    ELSE "skip"

\* Faulty variant: insert(0, vacancy) instead of append.
AppendRecord_Prepend(found, vacancy) == <<vacancy>> \o found

\* self.found_vacancies.append(vacancy)
AppendRecord(found, vacancy) == Append(found, vacancy)

\* asdict(vacancy): a plain dict with the six fields.
AsDict(r) ==
    [title |-> r.title, company |-> r.company, salary |-> r.salary,
     url |-> r.url, description |-> r.description, skills |-> r.skills]

----------------------------------------------------------------------------
(* The operations. *)

\* HHruParser(search_query, max_pages): the state after construction, with
\* the remote API answering the pages as `listings` says.
Constructed(n, listings) ==
    /\ max_pages = n
    /\ server = listings
    /\ found_vacancies = <<>>
    /\ pc = "idle"
    /\ page = 0
    /\ items = <<>>
    /\ idx = 1
    /\ file = None
    /\ runs = 0
    /\ log = <<>>
    /\ atRequest = <<>>
    /\ history = <<>>

\* The pipeline: any max_pages up to the bound, against any server whose
\* pages have the shapes of ListingShapes.
Init ==
    \E n \in 0..MaxPagesBound :
        \E shapes \in [0..(n - 1) -> ListingShapes] :
            Constructed(n, [p \in 0..(n - 1) |-> ListingOfShape(p, shapes[p])])

\* One page: any listing response without items, or one item of any shape.
InitItem ==
    \E resp \in BadListings \cup {ListingOf(<<v>>) : v \in AllItems} :
        Constructed(1, [p \in {0} |-> resp])

\* Faulty variant: fetch_vacancies starts from an empty list.
Invoke_Resets ==
    /\ pc \in {"idle", "returned"}
    /\ runs < MaxRuns
    /\ runs' = runs + 1
    /\ pc' = "request"
    /\ page' = 0
    /\ log' = <<>>
    /\ found_vacancies' = <<>>
    /\ atRequest' = <<>>
    /\ history' = Append(history, found_vacancies)
    /\ UNCHANGED <<server, max_pages, items, idx, file>>

\* A call of fetch_vacancies(): the for loop starts at page 0.
Invoke ==
    /\ pc \in {"idle", "returned"}
    /\ runs < MaxRuns
    /\ runs' = runs + 1
    /\ pc' = "request"
    /\ page' = 0
    /\ log' = <<>>
    /\ atRequest' = found_vacancies
    /\ history' = Append(history, found_vacancies)
    /\ UNCHANGED <<server, max_pages, found_vacancies, items, idx, file>>

\* range(self.max_pages) is exhausted: fetch_vacancies returns.
LoopExit ==
    /\ pc = "request"
    /\ page >= max_pages
    /\ pc' = "returned"
    /\ UNCHANGED <<server, max_pages, found_vacancies, page, items, idx, file,
                   runs, log, atRequest, history>>

\* The listing request of one page and what the try block does with it.
ListingRequest ==
    /\ pc = "request"
    /\ page < max_pages
    /\ \E jsonErrorCaught \in BOOLEAN :
        LET resp == server[page]
            out == ListingOutcome(resp, jsonErrorCaught)
        IN  /\ log' = Append(log, <<"list", page>>)
            /\ atRequest' = found_vacancies
            /\ pc' = CASE out = "items" -> "items"
                       [] out = "raise" -> "raised"
                       [] OTHER -> "returned"
            /\ items' = IF out = "items" THEN resp.items.list ELSE items
            /\ idx' = IF out = "items" THEN 1 ELSE idx
    /\ UNCHANGED <<server, max_pages, found_vacancies, page, file, runs, history>>

\* One iteration of the loop of _process_vacancies.
ProcessItem ==
    /\ pc = "items"
    /\ idx <= Len(items)
    /\ LET v == items[idx]
           out == ItemOutcome(v)
       IN  /\ log' = IF DetailRequested(v)
                      THEN Append(log, <<"detail", v.id[1]>>) ELSE log
           /\ found_vacancies' = IF out = "append"
                                  THEN AppendRecord(found_vacancies, VacancyOf(v))
                                  ELSE found_vacancies
           /\ pc' = IF out = "raise" THEN "raised" ELSE pc
           /\ idx' = IF out = "raise" THEN idx ELSE idx + 1
    /\ UNCHANGED <<server, max_pages, page, items, file, runs, atRequest, history>>

\* _process_vacancies has returned: time.sleep(1), then the next page.
Sleep ==
    /\ pc = "items"
    /\ idx > Len(items)
    /\ log' = Append(log, <<"sleep", page>>)
    /\ page' = page + 1
    /\ pc' = "request"
    /\ UNCHANGED <<server, max_pages, found_vacancies, items, idx, file, runs,
                   atRequest, history>>

\* Faulty variant: save_to_json empties the list it has written.
SaveToJson_Drains ==
    /\ pc = "returned"
    /\ \E writable \in BOOLEAN :
          /\ file' = IF writable
                     THEN Some([i \in DOMAIN found_vacancies |-> AsDict(found_vacancies[i])])
                     ELSE file
          /\ pc' = IF writable THEN pc ELSE "save_raised"
    /\ found_vacancies' = <<>>
    /\ UNCHANGED <<server, max_pages, page, items, idx, runs, log, atRequest, history>>

\* save_to_json(), called after fetch_vacancies as __main__ does: the file
\* holds asdict of every record, in order; when the file cannot be opened
\* the error reaches the caller.
SaveToJson ==
    /\ pc = "returned"
    /\ \E writable \in BOOLEAN :
          /\ file' = IF writable
                     THEN Some([i \in DOMAIN found_vacancies |-> AsDict(found_vacancies[i])])
                     ELSE file
          /\ pc' = IF writable THEN pc ELSE "save_raised"
    /\ UNCHANGED <<server, max_pages, found_vacancies, page, items, idx, runs,
                   log, atRequest, history>>

Next ==
    \/ Invoke
    \/ LoopExit
    \/ ListingRequest
    \/ ProcessItem
    \/ Sleep
    \/ SaveToJson

Spec == Init /\ [][Next]_vars

SpecItem == InitItem /\ [][Next]_vars

----------------------------------------------------------------------------
(* Vocabulary of the properties. *)

IsPrefix(s, t) == Len(s) <= Len(t) /\ SubSeq(t, 1, Len(s)) = s

\* fetch_vacancies has been called and has ended, by returning or by raising.
Ended == pc \in {"returned", "raised"}

\* The pages of the listing requests of the current invocation, in order.
RequestedPages ==
    LET reqs == SelectSeq(log, LAMBDA e : e[1] = "list")
    IN  [i \in 1..Len(reqs) |-> reqs[i][2]]

\* A 4xx or 5xx status.
ErrorStatus(status) == status \in 400..599

\* The listing request ended in a network error, a timeout or the status given.
ListingFailedWith(resp, statuses) == resp.net # "ok" \/ resp.status \in statuses

\* The listing response is a JSON object with an empty list of items.
ZeroItems(resp) ==
    /\ resp.net = "ok" /\ ~ErrorStatus(resp.status) /\ resp.body = "dict"
    /\ resp.items.kind = "list" /\ resp.items.list = <<>>

\* Log position i is the last event of the invocation, which then returned
\* to its caller with the records it had when that request was issued.
StoppedAt(i) ==
    /\ i = Len(log)
    /\ pc \in {"returned", "save_raised"}
    /\ found_vacancies = atRequest

\* The (page, position) at which the server lists the item whose
\* alternate_url is u.
PosOf(u) ==
    CHOOSE pi \in (DOMAIN server) \X (1..MaxItems) :
        /\ server[pi[1]].items.kind = "list"
        /\ pi[2] <= Len(server[pi[1]].items.list)
        /\ server[pi[1]].items.list[pi[2]].alternate_url = Some(u)

Before(a, b) == a[1] < b[1] \/ (a[1] = b[1] /\ a[2] < b[2])

\* The index of the invocation that appended found_vacancies[i].
RunOf(i) == Cardinality({k \in DOMAIN history : Len(history[k]) < i})

----------------------------------------------------------------------------
C2_EmptyPageStops ==
    \A i \in DOMAIN log :
        (log[i][1] = "list" /\ ZeroItems(server[log[i][2]])) => StoppedAt(i)

\* An empty page after a page that produced records.
C2_Witness ==
    /\ pc = "returned" /\ page >= 1 /\ found_vacancies # <<>>
    /\ log[Len(log)] = <<"list", page>>
    /\ ZeroItems(server[page])

(* C3 as stated: the pages requested are 0, 1, ..., k-1 with k <= max_pages,*)
(* and an invocation that has ended with k < max_pages ended page k-1 in a  *)
(* listing failure or an empty page.                                        *)
C3_PagesInOrder ==
    LET pages == RequestedPages
        k == Len(pages)
    IN  /\ k <= max_pages
        /\ \A i \in 1..k : pages[i] = i - 1
        /\ (Ended /\ k < max_pages) =>
              /\ k >= 1
              /\ \/ ListingFailedWith(server[k - 1], 400..599)
                 \/ ZeroItems(server[k - 1])

(* C4 as stated: an item whose processing raises is skipped and nothing     *)
(* else: once the invocation has ended, every item of the page it processed *)
(* last has been processed, and each one that raises no error has its       *)
(* record among the accumulated ones.                                       *)
C4_ItemFailureSkipsOnlyThatItem ==
    Ended =>
        /\ idx > Len(items)
        /\ \A i \in DOMAIN items :
              ItemException(items[i]) = "none" =>
                 \E j \in DOMAIN found_vacancies : found_vacancies[j] = VacancyOf(items[i])

(* C5 as stated: an item whose detail request ends in a network error, a    *)
(* timeout or a status outside 2xx adds no record.                          *)
C5_DetailFailureDropsItem ==
    \A i \in DOMAIN items :
        (/\ i < idx
         /\ DetailRequested(items[i])
         /\ \/ items[i].detail.net # "ok"
            \/ items[i].detail.status \notin 200..299)
        => \A j \in DOMAIN found_vacancies :
              found_vacancies[j].url # items[i].alternate_url[1]

\* The item every record of the single-item specification comes from.
TheItem == server[0].items.list[1]

(* C6 as stated: the record's salary is absent when the item has no salary  *)
(* field, and whenever the item has a salary object, an empty one included, *)
(* it has exactly the four keys, each the source's value or null.           *)
C6_SalaryObjectGivesFourKeys ==
    \A j \in DOMAIN found_vacancies :
        LET r == found_vacancies[j]
        IN  /\ TheItem.salary.kind = "missing" => r.salary = None
            /\ TheItem.salary.kind = "dict" =>
                 /\ r.salary # None
                 /\ DOMAIN r.salary[1] = SalaryKeys
                 /\ \A k \in SalaryKeys : r.salary[1][k] = DictGet(TheItem.salary.d, k)

(* C6 amended: the record's salary is absent when the item has no salary    *)
(* field, a null one or an empty salary object; whenever the item has a     *)
(* non-empty salary object, a partial one included, it has exactly the four *)
(* keys, each the source's value or null.  No record has a salary with      *)
(* fewer or more than four keys.                                            *)
C6_SalaryNormalized ==
    \A j \in DOMAIN found_vacancies :
        LET r == found_vacancies[j]
            src == TheItem.salary
        IN  /\ (src.kind \in {"missing", "null"} \/ (src.kind = "dict" /\ DOMAIN src.d = {}))
                  => r.salary = None
            /\ (src.kind = "dict" /\ DOMAIN src.d # {}) =>
                 /\ r.salary # None
                 /\ DOMAIN r.salary[1] = SalaryKeys
                 /\ \A k \in SalaryKeys : r.salary[1][k] = DictGet(src.d, k)
            /\ r.salary = None \/ DOMAIN r.salary[1] = SalaryKeys

\* A record made from an item whose salary object has only "from".
C6_Witness ==
    /\ found_vacancies # <<>>
    /\ TheItem.salary.kind = "dict"
    /\ DOMAIN TheItem.salary.d = {"from"}
    /\ found_vacancies[1].salary[1].from = Some("100000")
    /\ found_vacancies[1].salary[1].gross = None

(* C7: the accumulated records are in encounter order: of two records of    *)
(* one invocation, the earlier comes from a lower page, or from the same    *)
(* page and an earlier position; records of an earlier invocation precede   *)
(* those of a later one.  The order is transitive, so it is stated of each  *)
(* record and its successor.                                                *)
C7_EncounterOrder ==
    \A i \in 1..(Len(found_vacancies) - 1) :
        \/ RunOf(i) < RunOf(i + 1)
        \/ /\ RunOf(i) = RunOf(i + 1)
           /\ Before(PosOf(found_vacancies[i].url), PosOf(found_vacancies[i + 1].url))

\* One invocation has accumulated two records of page 0 and one of page 1.
C7_Witness ==
    /\ runs = 1 /\ Len(found_vacancies) >= 3
    /\ PosOf(found_vacancies[1].url)[1] = 0
    /\ PosOf(found_vacancies[2].url) = <<0, 2>>
    /\ PosOf(found_vacancies[3].url)[1] = 1

(* C8: the accumulated records are empty at construction; every step leaves *)
(* them unchanged or extends them by one record at the end; a step of       *)
(* _process_vacancies appends exactly one record when the item raises no    *)
(* error and none when it does; no other step, save_to_json included,       *)
(* changes them.                                                            *)
C8_AppendOnly ==
    /\ found_vacancies = <<>>
    /\ [][/\ IsPrefix(found_vacancies, found_vacancies')
          /\ Len(found_vacancies') <= Len(found_vacancies) + 1
          /\ (pc = "items" /\ idx <= Len(items)) =>
                (Len(found_vacancies') = Len(found_vacancies) + 1
                    <=> ItemException(items[idx]) = "none")
          /\ ~(pc = "items" /\ idx <= Len(items)) => found_vacancies' = found_vacancies
          /\ file' # file => found_vacancies' = found_vacancies]_vars

\* The file was written after an invocation that kept one item and dropped another.
C8_Witness ==
    /\ pc = "returned" /\ file # None
    /\ Len(file[1]) = Len(found_vacancies)
    /\ found_vacancies # <<>>
    /\ \E i \in DOMAIN log :
          /\ log[i][1] = "detail"
          /\ \A j \in DOMAIN found_vacancies : found_vacancies[j].url # log[i][2]

(* C9 as stated: fetch_vacancies ends only by completing all max_pages      *)
(* pages or at a listing failure or an empty page, never by an error        *)
(* reaching its caller.                                                     *)
C9_NoErrorEscapes ==
    /\ pc # "raised"
    /\ pc = "returned" /\ runs >= 1 =>
          \/ Len(RequestedPages) = max_pages
          \/ /\ log # <<>>
             /\ log[Len(log)][1] = "list"
             /\ \/ ListingFailedWith(server[log[Len(log)][2]], 400..599)
                \/ ZeroItems(server[log[Len(log)][2]])

(* C10: an invocation of fetch_vacancies keeps the records present before   *)
(* it as a prefix; against the same responses, every invocation after the   *)
(* first appends the first invocation's records R again, so two invocations *)
(* leave R followed by R.                                                   *)
C10_RerunAppends ==
    /\ \A k \in DOMAIN history : IsPrefix(history[k], found_vacancies)
    /\ (Ended /\ runs >= 2) => found_vacancies = history[runs] \o history[2]

\* Two invocations have ended and the first one had accumulated records.
C10_Witness ==
    /\ runs = 2 /\ pc = "returned"
    /\ history[2] # <<>>
    /\ Len(found_vacancies) = 2 * Len(history[2])

====
